---- MODULE Spec2Model ----
(***************************************************************************)
(* Model of agent/concentrator.go: the Concentrator's two-slot bucket      *)
(* ring, the Ingestor goroutine (Start, lines 63-69), the FlushScheduler   *)
(* goroutine (bucketCloser/flush) and the environment around them (span    *)
(* producer, channel consumers, supervising caller).                       *)
(*                                                                         *)
(* openBucket and currentBucket are shared by the two goroutines without   *)
(* synchronisation (FIXME at line 85).  Each statement of flush and each   *)
(* memory access of HandleNewSpan is a separate step, and an unsynchronised*)
(* load by the Ingestor may return any value that has been stored to the   *)
(* location since Start (the go statement orders Start's stores before     *)
(* both goroutines; nothing orders the FlushScheduler's stores with the    *)
(* Ingestor's loads).                                                      *)
(***************************************************************************)
EXTENDS Integers, Sequences, FiniteSets, TLC

\* ---- bounds ----
MaxBuckets == 3      \* StatsBuckets allocated in a run (Start + rotations)
MaxSpans   == 2      \* spans the producer feeds
MaxNow     == 1      \* largest clock value
ChanCap    == 1      \* capacity of the channels handed to Init

NIL == 0             \* the nil *StatsBucket
Slots == {0, 1}

VARIABLES
  openBucket,     \* c.openBucket: slot -> bucket id or NIL
  currentBucket,  \* c.currentBucket
  bkt,            \* heap of StatsBuckets: sequence of records, id = index
  now,            \* model.Now()
  inSpans,        \* c.inSpans  : [buf, closed]
  outSpans,       \* c.outSpans : [buf, closed]
  outStats,       \* c.outStats : [buf, closed]
  exitReady,      \* c.exit can be received from
  wg,             \* c.exitGroup counter
  supPc,          \* supervising caller
  ingPc, ingSpan, ingIdx, ingPtr,       \* Ingestor goroutine and its locals
  ingFresh,       \* history: the loads of this HandleNewSpan call returned the
                  \* latest stores (the call ran as an in-order interleaving)
  schedPc, nextBucket, bucketToSend,    \* bucketCloser goroutine and flush locals
  produced,       \* number of spans the producer has fed
  spansIn,        \* history: spans received from c.inSpans
  spansOut,       \* history: spans sent on c.outSpans
  statsOut,       \* history: bucket values sent on c.outStats
  flushes,        \* history: completed executions of flush
  closes,         \* history: close(c.outSpans) executions
  idxHist,        \* values stored to c.currentBucket so far
  slotHist        \* values stored to each c.openBucket slot so far

vars == <<openBucket, currentBucket, bkt, now, inSpans, outSpans, outStats,
          exitReady, wg, supPc, ingPc, ingSpan, ingIdx, ingPtr, ingFresh,
          schedPc, nextBucket, bucketToSend, produced, spansIn, spansOut,
          statsOut, flushes, closes, idxHist, slotHist>>

shared  == <<openBucket, currentBucket, bkt, idxHist, slotHist>>
ingVars == <<ingPc, ingSpan, ingIdx, ingPtr, ingFresh>>
schVars == <<schedPc, nextBucket, bucketToSend>>
envVars == <<inSpans, produced, exitReady, supPc>>

\* ---- channels ----
EmptyChan == [buf |-> <<>>, closed |-> FALSE]
CanSend(ch) == ~ch.closed /\ Len(ch.buf) < ChanCap
Send(ch, v) == [ch EXCEPT !.buf = Append(@, v)]
CanRecv(ch) == Len(ch.buf) > 0
Recv(ch)    == [ch EXCEPT !.buf = Tail(@)]
Close(ch)   == [ch EXCEPT !.closed = TRUE]

\* ---- StatsBucket (package model) ----
\* NewStatsBucket: window opens at the current clock, nothing absorbed yet.
NewStatsBucket(t) ==
  [Start |-> t, Duration |-> 0, encoded |-> FALSE, handled |-> <<>>,
   stamps |-> 0, closedAt |-> 0]
\* (*StatsBucket).HandleSpan: absorb one span's contribution.
HandleSpan(b, s) == [b EXCEPT !.handled = Append(@, s)]
\* (*StatsBucket).Encode: freeze for transmission.
Encode(b) == [b EXCEPT !.encoded = TRUE]
\* the value copied out of the heap by  *c.openBucket[bucketToSend]
Deref(id) == [id |-> id, Start |-> bkt[id].Start, Duration |-> bkt[id].Duration,
              encoded |-> bkt[id].encoded]

\* ---- construction: NewConcentrator + Init ----
Init ==
  /\ openBucket = [i \in Slots |-> NIL]
  /\ currentBucket = 0
  /\ bkt = <<>>
  /\ now = 0
  /\ inSpans = EmptyChan /\ outSpans = EmptyChan /\ outStats = EmptyChan
  /\ exitReady = FALSE
  /\ wg = 0
  /\ supPc = "new"
  /\ ingPc = "idle" /\ ingSpan = 0 /\ ingIdx = 0 /\ ingPtr = NIL
  /\ ingFresh = TRUE
  /\ schedPc = "idle" /\ nextBucket = 0 /\ bucketToSend = 0
  /\ produced = 0
  /\ spansIn = <<>> /\ spansOut = <<>> /\ statsOut = <<>>
  /\ flushes = 0 /\ closes = 0
  /\ idxHist = {0}
  /\ slotHist = [i \in Slots |-> {NIL}]

\* An unrecovered panic in a goroutine (nil dereference in HandleNewSpan, send
\* on the closed c.outSpans) terminates the whole program: nothing runs after it.
Alive == ingPc \notin {"panicNil", "panicClosed"}

\* ---- Concentrator.Start ----
Start ==
  /\ Alive
  /\ supPc = "new"
  /\ bkt' = Append(bkt, NewStatsBucket(now))
  /\ openBucket' = [openBucket EXCEPT ![0] = Len(bkt) + 1]
  /\ slotHist' = [slotHist EXCEPT ![0] = {Len(bkt) + 1}]
  /\ ingPc' = "recv"
  /\ schedPc' = "add"
  /\ supPc' = "running"
  /\ UNCHANGED <<ingFresh, currentBucket, now, inSpans, outSpans, outStats, exitReady, wg,
                 ingSpan, ingIdx, ingPtr, nextBucket, bucketToSend, produced,
                 spansIn, spansOut, statsOut, flushes, closes, idxHist>>

\* ---- Ingestor: for s := range c.inSpans { HandleNewSpan(&s); c.outSpans <- s } ----
IngRecv ==
  /\ Alive
  /\ ingPc = "recv"
  /\ CanRecv(inSpans)
  /\ ingSpan' = Head(inSpans.buf)
  /\ inSpans' = Recv(inSpans)
  /\ spansIn' = Append(spansIn, Head(inSpans.buf))
  /\ ingPc' = "loadIdx"
  /\ UNCHANGED <<ingFresh, shared, now, outSpans, outStats, exitReady, wg, supPc, ingIdx,
                 ingPtr, schVars, produced, spansOut, statsOut, flushes, closes>>

\* the range loop's end with the Ingestor closing its output itself
IngRangeEndClose ==
  /\ Alive
  /\ ingPc = "recv"
  /\ ~CanRecv(inSpans) /\ inSpans.closed
  /\ ingPc' = "done"
  /\ outSpans' = Close(outSpans)
  /\ closes' = closes + 1
  /\ UNCHANGED <<ingFresh, shared, now, inSpans, outStats, exitReady, wg, supPc,
                 ingSpan, ingIdx, ingPtr, schVars, produced, spansIn, spansOut,
                 statsOut, flushes>>

IngRangeEnd ==
  /\ Alive
  /\ ingPc = "recv"
  /\ ~CanRecv(inSpans) /\ inSpans.closed
  /\ ingPc' = "done"
  /\ UNCHANGED <<ingFresh, shared, now, inSpans, outSpans, outStats, exitReady, wg, supPc,
                 ingSpan, ingIdx, ingPtr, schVars, produced, spansIn, spansOut,
                 statsOut, flushes, closes>>

\* HandleNewSpan, load of c.currentBucket
IngLoadIdx ==
  /\ Alive
  /\ ingPc = "loadIdx"
  /\ \E i \in idxHist : ingIdx' = i /\ ingFresh' = (i = currentBucket)
  /\ ingPc' = "loadSlot"
  /\ UNCHANGED <<shared, now, inSpans, outSpans, outStats, exitReady, wg, supPc,
                 ingSpan, ingPtr, schVars, produced, spansIn, spansOut,
                 statsOut, flushes, closes>>

\* HandleNewSpan, load of c.openBucket[idx]
IngLoadSlot ==
  /\ Alive
  /\ ingPc = "loadSlot"
  /\ \E p \in slotHist[ingIdx] :
       ingPtr' = p /\ ingFresh' = (ingFresh /\ p = openBucket[ingIdx])
  /\ ingPc' = "handle"
  /\ UNCHANGED <<shared, now, inSpans, outSpans, outStats, exitReady, wg, supPc,
                 ingSpan, ingIdx, schVars, produced, spansIn, spansOut,
                 statsOut, flushes, closes>>

\* HandleNewSpan without the HandleSpan call
IngHandleSkip ==
  /\ Alive
  /\ ingPc = "handle"
  /\ ingPc' = "send"
  /\ ingIdx' = 0 /\ ingPtr' = NIL
  /\ UNCHANGED <<ingFresh, shared, now, inSpans, outSpans, outStats, exitReady, wg, supPc,
                 ingSpan, schVars, produced, spansIn, spansOut, statsOut,
                 flushes, closes>>

\* HandleNewSpan, the HandleSpan call on the loaded pointer
IngHandle ==
  /\ Alive
  /\ ingPc = "handle"
  /\ IF ingPtr = NIL
       THEN /\ ingPc' = "panicNil"
            /\ bkt' = bkt
       ELSE /\ ingPc' = "send"
            /\ bkt' = [bkt EXCEPT ![ingPtr] = HandleSpan(@, ingSpan)]
  /\ ingIdx' = 0 /\ ingPtr' = NIL
  /\ UNCHANGED <<ingFresh, openBucket, currentBucket, idxHist, slotHist, now, inSpans,
                 outSpans, outStats, exitReady, wg, supPc, ingSpan, schVars,
                 produced, spansIn, spansOut, statsOut, flushes, closes>>

\* the send without leaving it: the same span is sent again
IngSendAgain ==
  /\ Alive
  /\ ingPc = "send"
  /\ CanSend(outSpans)
  /\ outSpans' = Send(outSpans, ingSpan)
  /\ spansOut' = Append(spansOut, ingSpan)
  /\ UNCHANGED <<shared, now, inSpans, outStats, exitReady, wg, supPc, ingVars,
                 schVars, produced, spansIn, statsOut, flushes, closes>>

\* c.outSpans <- s
IngSend ==
  /\ Alive
  /\ ingPc = "send"
  /\ IF outSpans.closed
       THEN /\ ingPc' = "panicClosed"
            /\ UNCHANGED <<outSpans, spansOut, ingFresh>>
       ELSE /\ CanSend(outSpans)
            /\ outSpans' = Send(outSpans, ingSpan)
            /\ spansOut' = Append(spansOut, ingSpan)
            /\ ingPc' = "recv"
            /\ ingFresh' = TRUE
  /\ UNCHANGED <<shared, now, inSpans, outStats, exitReady, wg, supPc, ingSpan,
                 ingIdx, ingPtr, schVars, produced, spansIn, statsOut, flushes,
                 closes>>

\* ---- FlushScheduler: bucketCloser ----
\* c.exitGroup.Add(1); ticker := time.Tick(...)
SchedAdd ==
  /\ Alive
  /\ schedPc = "add"
  /\ wg' = wg + 1
  /\ schedPc' = "select"
  /\ UNCHANGED <<shared, now, inSpans, outSpans, outStats, exitReady, supPc,
                 ingVars, nextBucket, bucketToSend, produced, spansIn, spansOut,
                 statsOut, flushes, closes>>

\* case <-ticker: a tick may be pending whenever the select is reached; the
\* clock has moved on by the time it is taken
SelectTick ==
  /\ Alive
  /\ schedPc = "select"
  /\ Len(bkt) < MaxBuckets
  /\ \E t \in now..MaxNow : now' = t
  /\ schedPc' = "alloc"
  /\ UNCHANGED <<shared, inSpans, outSpans, outStats, exitReady, wg, supPc,
                 ingVars, nextBucket, bucketToSend, produced, spansIn, spansOut,
                 statsOut, flushes, closes>>

\* case <-c.exit
SelectExit ==
  /\ Alive
  /\ schedPc = "select"
  /\ exitReady
  /\ schedPc' = "exiting"
  /\ UNCHANGED <<shared, now, inSpans, outSpans, outStats, exitReady, wg, supPc,
                 ingVars, nextBucket, bucketToSend, produced, spansIn, spansOut,
                 statsOut, flushes, closes>>

\* both writer channels closed on exit
ExitCloseBoth ==
  /\ Alive
  /\ schedPc = "exiting"
  /\ outSpans' = Close(outSpans)
  /\ outStats' = Close(outStats)
  /\ closes' = closes + 1
  /\ schedPc' = "closed"
  /\ UNCHANGED <<shared, now, inSpans, exitReady, wg, supPc, ingVars,
                 nextBucket, bucketToSend, produced, spansIn, spansOut, statsOut,
                 flushes>>

\* close(c.outSpans)
ExitClose ==
  /\ Alive
  /\ schedPc = "exiting"
  /\ outSpans' = Close(outSpans)
  /\ closes' = closes + 1
  /\ schedPc' = "closed"
  /\ UNCHANGED <<shared, now, inSpans, outStats, exitReady, wg, supPc, ingVars,
                 nextBucket, bucketToSend, produced, spansIn, spansOut, statsOut,
                 flushes>>

\* c.exitGroup.Done(); return
ExitDone ==
  /\ Alive
  /\ schedPc = "closed"
  /\ wg' = wg - 1
  /\ schedPc' = "stopped"
  /\ UNCHANGED <<shared, now, inSpans, outSpans, outStats, exitReady, supPc,
                 ingVars, nextBucket, bucketToSend, produced, spansIn, spansOut,
                 statsOut, flushes, closes>>

\* ---- Concentrator.flush ----
\* nextBucket := (c.currentBucket + 1) % 2
NextBucketSame(cur) == cur
NextBucket(cur) == (cur + 1) % 2

\* bucketToSend := (c.currentBucket + 1) % 2
BucketToSendZero(cur) == 0
BucketToSendCur(cur) == cur
BucketToSend(cur) == (cur + 1) % 2

\* the same two lines with the allocation made only into an empty slot
FlushAllocReuse ==
  /\ Alive
  /\ schedPc = "alloc"
  /\ nextBucket' = NextBucket(currentBucket)
  /\ IF openBucket[NextBucket(currentBucket)] = NIL
       THEN /\ bkt' = Append(bkt, NewStatsBucket(now))
            /\ now' = now
            /\ openBucket' = [openBucket EXCEPT ![NextBucket(currentBucket)] = Len(bkt) + 1]
            /\ slotHist' = [slotHist EXCEPT ![NextBucket(currentBucket)] = @ \cup {Len(bkt) + 1}]
       ELSE UNCHANGED <<now, bkt, openBucket, slotHist>>
  /\ schedPc' = "stamp"
  /\ UNCHANGED <<currentBucket, idxHist, inSpans, outSpans, outStats, exitReady,
                 wg, supPc, ingVars, bucketToSend, produced, spansIn, spansOut,
                 statsOut, flushes, closes>>

\* nextBucket := (c.currentBucket + 1) % 2
\* c.openBucket[nextBucket] = model.NewStatsBucket(c.eps)
FlushAlloc ==
  /\ Alive
  /\ schedPc = "alloc"
  /\ bkt' = Append(bkt, NewStatsBucket(now))
  /\ nextBucket' = NextBucket(currentBucket)
  /\ openBucket' = [openBucket EXCEPT ![NextBucket(currentBucket)] = Len(bkt) + 1]
  /\ slotHist' = [slotHist EXCEPT ![NextBucket(currentBucket)] = @ \cup {Len(bkt) + 1}]
  /\ schedPc' = "stamp"
  /\ UNCHANGED <<now, currentBucket, idxHist, inSpans, outSpans, outStats, exitReady,
                 wg, supPc, ingVars, bucketToSend, produced, spansIn, spansOut,
                 statsOut, flushes, closes>>

\* the stamp without the subtraction of Start
StampNow(b, t) ==
  [b EXCEPT !.Duration = t, !.stamps = b.stamps + 1, !.closedAt = t]

\* b.Duration = t - b.Start  (stamps and closedAt record the write)
Stamp(b, t) ==
  [b EXCEPT !.Duration = t - b.Start, !.stamps = b.stamps + 1, !.closedAt = t]

\* c.openBucket[c.currentBucket].Duration = model.Now() - c.openBucket[c.currentBucket].Start
FlushStamp ==
  /\ Alive
  /\ schedPc = "stamp"
  /\ bkt' = [bkt EXCEPT ![openBucket[currentBucket]] = Stamp(@, now)]
  /\ schedPc' = "flip"
  /\ UNCHANGED <<now, openBucket, currentBucket, idxHist, slotHist, inSpans, outSpans,
                 outStats, exitReady, wg, supPc, ingVars, nextBucket,
                 bucketToSend, produced, spansIn, spansOut, statsOut, flushes,
                 closes>>

\* the flip left out
FlushNoFlip ==
  /\ Alive
  /\ schedPc = "flip"
  /\ schedPc' = "pick"
  /\ UNCHANGED <<shared, now, inSpans, outSpans, outStats, exitReady, wg, supPc,
                 ingVars, nextBucket, bucketToSend, produced, spansIn, spansOut,
                 statsOut, flushes, closes>>

\* c.currentBucket = nextBucket
FlushFlip ==
  /\ Alive
  /\ schedPc = "flip"
  /\ currentBucket' = nextBucket
  /\ idxHist' = idxHist \cup {nextBucket}
  /\ schedPc' = "pick"
  /\ UNCHANGED <<openBucket, bkt, slotHist, now, inSpans, outSpans, outStats,
                 exitReady, wg, supPc, ingVars, nextBucket, bucketToSend,
                 produced, spansIn, spansOut, statsOut, flushes, closes>>

\* bucketToSend := (c.currentBucket + 1) % 2
\* if c.openBucket[bucketToSend] != nil { ... }
FlushPick ==
  /\ Alive
  /\ schedPc = "pick"
  /\ IF openBucket[BucketToSend(currentBucket)] # NIL
       THEN /\ schedPc' = "encode"
            /\ bucketToSend' = BucketToSend(currentBucket)
            /\ UNCHANGED <<nextBucket, flushes>>
       ELSE /\ schedPc' = "select"
            /\ flushes' = flushes + 1
            /\ nextBucket' = 0 /\ bucketToSend' = 0
  /\ UNCHANGED <<shared, now, inSpans, outSpans, outStats, exitReady, wg, supPc,
                 ingVars, produced, spansIn, spansOut, statsOut, closes>>

\* c.openBucket[bucketToSend].Encode()
FlushEncode ==
  /\ Alive
  /\ schedPc = "encode"
  /\ bkt' = [bkt EXCEPT ![openBucket[bucketToSend]] = Encode(@)]
  /\ schedPc' = "send"
  /\ UNCHANGED <<openBucket, currentBucket, idxHist, slotHist, now, inSpans,
                 outSpans, outStats, exitReady, wg, supPc, ingVars, nextBucket,
                 bucketToSend, produced, spansIn, spansOut, statsOut, flushes,
                 closes>>

\* the send repeated instead of returning
FlushSendAgain ==
  /\ Alive
  /\ schedPc = "send"
  /\ CanSend(outStats)
  /\ outStats' = Send(outStats, Deref(openBucket[bucketToSend]))
  /\ statsOut' = Append(statsOut, Deref(openBucket[bucketToSend]))
  /\ UNCHANGED <<shared, now, inSpans, outSpans, exitReady, wg, supPc, ingVars,
                 schVars, flushes, produced, spansIn, spansOut, closes>>

\* c.outStats <- *c.openBucket[bucketToSend]   (then flush returns and its
\* locals nextBucket, bucketToSend go out of scope)
FlushSend ==
  /\ Alive
  /\ schedPc = "send"
  /\ CanSend(outStats)
  /\ outStats' = Send(outStats, Deref(openBucket[bucketToSend]))
  /\ statsOut' = Append(statsOut, Deref(openBucket[bucketToSend]))
  /\ flushes' = flushes + 1
  /\ schedPc' = "select"
  /\ nextBucket' = 0 /\ bucketToSend' = 0
  /\ UNCHANGED <<shared, now, inSpans, outSpans, exitReady, wg, supPc, ingVars,
                 produced, spansIn, spansOut, closes>>

\* ---- environment ----
\* the producer feeds spans 1, 2, ... on c.inSpans
Produce ==
  /\ Alive
  /\ produced < MaxSpans
  /\ CanSend(inSpans)
  /\ inSpans' = Send(inSpans, produced + 1)
  /\ produced' = produced + 1
  /\ UNCHANGED <<shared, now, outSpans, outStats, exitReady, wg, supPc, ingVars,
                 schVars, spansIn, spansOut, statsOut, flushes, closes>>

\* the producer closes c.inSpans
CloseInSpans ==
  /\ Alive
  /\ ~inSpans.closed
  /\ inSpans' = Close(inSpans)
  /\ UNCHANGED <<shared, now, outSpans, outStats, exitReady, wg, supPc, ingVars,
                 schVars, produced, spansIn, spansOut, statsOut, flushes, closes>>

\* the write path receives a span from c.outSpans
ConsumeSpan ==
  /\ Alive
  /\ CanRecv(outSpans)
  /\ outSpans' = Recv(outSpans)
  /\ UNCHANGED <<shared, now, inSpans, outStats, exitReady, wg, supPc, ingVars,
                 schVars, produced, spansIn, spansOut, statsOut, flushes, closes>>

\* the stats writer receives a bucket from c.outStats
ConsumeStats ==
  /\ Alive
  /\ CanRecv(outStats)
  /\ outStats' = Recv(outStats)
  /\ UNCHANGED <<shared, now, inSpans, outSpans, exitReady, wg, supPc, ingVars,
                 schVars, produced, spansIn, spansOut, statsOut, flushes, closes>>

\* the supervising caller makes the exit signal available
SignalExit ==
  /\ Alive
  /\ supPc = "running"
  /\ exitReady' = TRUE
  /\ supPc' = "signalled"
  /\ UNCHANGED <<shared, now, inSpans, outSpans, outStats, wg, ingVars, schVars,
                 produced, spansIn, spansOut, statsOut, flushes, closes>>

\* the supervising caller's exitGroup.Wait() returns
WaitReturn ==
  /\ Alive
  /\ supPc = "signalled"
  /\ wg = 0
  /\ supPc' = "waited"
  /\ UNCHANGED <<shared, now, inSpans, outSpans, outStats, exitReady, wg,
                 ingVars, schVars, produced, spansIn, spansOut, statsOut,
                 flushes, closes>>

Next ==
  \/ Start
  \/ IngRecv \/ IngRangeEnd \/ IngLoadIdx \/ IngLoadSlot \/ IngHandle \/ IngSend
  \/ SchedAdd \/ SelectTick \/ SelectExit \/ ExitClose \/ ExitDone
  \/ FlushAlloc \/ FlushStamp \/ FlushFlip \/ FlushPick \/ FlushEncode \/ FlushSend
  \/ Produce \/ CloseInSpans \/ ConsumeSpan \/ ConsumeStats
  \/ SignalExit \/ WaitReturn

Spec == Init /\ [][Next]_vars

\* ---- fairness ----
\* the two goroutines, as the Go scheduler runs them
Ingestor ==
  IngRecv \/ IngRangeEnd \/ IngLoadIdx \/ IngLoadSlot \/ IngHandle \/ IngSend
FlushScheduler ==
  \/ SchedAdd \/ SelectExit \/ ExitClose \/ ExitDone
  \/ FlushAlloc \/ FlushStamp \/ FlushFlip \/ FlushPick \/ FlushEncode \/ FlushSend

\* Every goroutine that can run does run; a select that keeps finding the
\* exit case ready takes it (Go picks uniformly among the ready cases); both
\* downstream consumers keep receiving.  Ticks, the producer and the
\* supervisor are under no obligation.
FairSpec ==
  /\ Spec
  /\ WF_vars(Ingestor)
  /\ WF_vars(FlushScheduler)
  /\ SF_vars(SelectExit)
  /\ WF_vars(ConsumeSpan)
  /\ WF_vars(ConsumeStats)

TypeOK ==
  /\ openBucket \in [Slots -> 0..MaxBuckets]
  /\ currentBucket \in Slots
  /\ Len(bkt) <= MaxBuckets
  /\ now \in 0..MaxNow
  /\ wg \in 0..1

\* ---- vocabulary of the properties ----
EmittedIds == {statsOut[k].id : k \in DOMAIN statsOut}
InFlush == schedPc \in {"alloc", "stamp", "flip", "pick", "encode", "send"}
ExitHandled == schedPc \in {"exiting", "closed", "stopped"}
\* the spans absorbed by buckets 1..i, bucket after bucket
RECURSIVE HandledUpTo(_)
HandledUpTo(i) == IF i = 0 THEN <<>> ELSE HandledUpTo(i - 1) \o bkt[i].handled
\* number of HandleSpan calls that absorbed span s, over all buckets
Absorbed(s) ==
  LET all == HandledUpTo(Len(bkt)) IN Cardinality({k \in DOMAIN all : all[k] = s})
IsPrefix(a, b) == Len(a) <= Len(b) /\ \A k \in 1..Len(a) : a[k] = b[k]

\* C1 (as stated): after exactly one completed rotation no bucket has been
\* sent on the outbound stats channel.
C1_FirstRotationEmitsNothing == flushes = 1 => Len(statsOut) = 0

\* C1 (amended): after exactly one completed rotation exactly one bucket has
\* been sent on the outbound stats channel, the bucket allocated by Start.
C1_FirstRotationEmitsStartBucket ==
  flushes = 1 => Len(statsOut) = 1 /\ statsOut[1].id = 1

C1_Witness == flushes = 1 /\ schedPc = "select" /\ Len(statsOut) = 1

\* C2: once a bucket has been sent on the outbound stats channel, no later
\* HandleSpan call of the Ingestor is applied to it, under every interleaving
\* of the Ingestor's loads and its HandleSpan call with the steps of flush
\* (the calls whose loads returned the latest stores).
C2_NoWriteAfterEmit ==
  [][(ingPc = "handle" /\ ingFresh) =>
       \A i \in 1..Len(bkt) : i \in EmittedIds => bkt'[i].handled = bkt[i].handled]_vars

\* C3: no bucket appears twice in the sequence of values sent on the
\* outbound stats channel.
C3_NoDoubleEmit ==
  \A i, j \in DOMAIN statsOut : i # j => statsOut[i].id # statsOut[j].id

C3_Witness == Len(statsOut) >= 2 /\ flushes >= 2

\* C4: every send on the outbound stats channel carries a bucket whose
\* Duration a rotation has stamped, on which Encode has been called, and
\* which is not the bucket selected by the current index at that moment.
C4_EmitOnlyClosed ==
  [][statsOut' # statsOut =>
       LET b == statsOut'[Len(statsOut')] IN
         /\ bkt[b.id].stamps >= 1
         /\ bkt[b.id].encoded /\ b.encoded
         /\ openBucket[currentBucket] # b.id]_vars

C4_Witness ==
  \E k \in DOMAIN statsOut :
    statsOut[k].encoded /\ bkt[statsOut[k].id].stamps >= 1
      /\ openBucket[currentBucket] # statsOut[k].id

\* C5 (as stated): when no flush is in progress the slot not selected by the
\* current index is empty or holds a stamped bucket that has not been emitted.
C5_DrainSlotNotYetEmitted ==
  ~InFlush =>
    LET o == openBucket[(currentBucket + 1) % 2] IN
      \/ o = NIL /\ flushes = 0
      \/ o # NIL /\ bkt[o].stamps >= 1 /\ o \notin EmittedIds

\* C5 (amended): when no flush is in progress the slot not selected by the
\* current index is empty (only before the first rotation) or holds a
\* stamped bucket that has already been emitted.
C5_OtherSlotAlreadyEmitted ==
  ~InFlush =>
    LET o == openBucket[(currentBucket + 1) % 2] IN
      IF flushes = 0 THEN o = NIL
                     ELSE o # NIL /\ bkt[o].stamps >= 1 /\ o \in EmittedIds

C5_Witness ==
  /\ schedPc = "select" /\ flushes >= 1
  /\ openBucket[(currentBucket + 1) % 2] \in EmittedIds

\* C6: after k completed executions of flush exactly k buckets have been sent
\* on the outbound stats channel, however slowly the channel is drained.
C6_OneBucketPerRotation == Len(statsOut) = flushes

C6_Witness ==
  schedPc = "send" /\ ~CanSend(outStats) /\ flushes >= 1 /\ Len(statsOut) = flushes

\* C7: buckets are sent on the outbound stats channel in the order in which
\* they were allocated.
C7_EmitFIFO ==
  \A i, j \in DOMAIN statsOut : i < j => statsOut[i].id < statsOut[j].id

C7_Witness == Len(statsOut) >= 2 /\ statsOut[1].id = 1 /\ statsOut[2].id = 2

\* C8: the spans sent on the outbound span channel are a prefix of the spans
\* received from the inbound span channel.
C8_SpanOrder == IsPrefix(spansOut, spansIn)

C8_Witness == Len(spansOut) >= 2 /\ Len(bkt) >= 2

\* C9: a span has been absorbed exactly once when it is sent on the outbound
\* span channel and is never absorbed more than once; spans ingested before
\* any rotation are all absorbed, in order, by the bucket of slot 0.
C9_AbsorbedOnceBeforeForward ==
  LET all == HandledUpTo(Len(bkt))
      n(s) == Cardinality({k \in DOMAIN all : all[k] = s})
  IN /\ \A k \in DOMAIN spansIn :
          IF k <= Len(spansOut) \/ ingPc = "send" THEN n(spansIn[k]) = 1
                                                  ELSE n(spansIn[k]) <= 1
     /\ IsPrefix(spansOut, spansIn)
     /\ (Len(bkt) = 1 /\ ingPc \in {"recv", "done"}) =>
           bkt[openBucket[0]].handled = spansIn

C9_Witness ==
  Len(bkt) = 1 /\ ingPc = "recv" /\ Len(spansIn) = MaxSpans
    /\ bkt[1].handled = spansIn

C11_CloseOnceByScheduler ==
  /\ [](/\ closes <= 1
        /\ outSpans.closed <=> closes = 1
        /\ outSpans.closed <=> schedPc \in {"closed", "stopped"}
        /\ outSpans.closed => exitReady)
  /\ [][outSpans'.closed # outSpans.closed =>
          schedPc = "exiting" /\ schedPc' = "closed" /\ ingPc' = ingPc]_vars

C11_Witness ==
  closes = 1 /\ outSpans.closed /\ schedPc = "stopped" /\ ingPc = "done"

\* C12: the Ingestor never attempts to send a span on c.outSpans after that
\* channel has been closed.
C12_NoSendOnClosed == ~(ingPc = "send" /\ outSpans.closed)

\* C13: the supervising caller's wait on the exit group does not return before
\* the FlushScheduler has closed c.outSpans.
C13_WaitReturnsAfterClose == supPc = "waited" => outSpans.closed

\* C14: no execution of flush begins once the exit signal is available to the
\* FlushScheduler's select.
C14_NoFlushAfterExitSignal ==
  [][exitReady => ~(schedPc = "select" /\ schedPc' = "alloc")]_vars

\* C15: the FlushScheduler goes Running -> Exiting -> Stopped, Stopped is
\* terminal, and whenever the exit signal fires it eventually closes
\* c.outSpans, signals the exit group and returns (runs ended by a nil
\* dereference in HandleNewSpan are left aside).
C15_SchedulerStops ==
  /\ [][/\ schedPc' = "exiting" => schedPc \in {"select", "exiting"}
        /\ schedPc' = "stopped" => schedPc \in {"closed", "stopped"}
        /\ schedPc = "stopped" => schedPc' = "stopped"]_vars
  /\ exitReady ~> \/ schedPc = "stopped" /\ outSpans.closed /\ wg = 0
                  \/ ingPc = "panicNil"

\* C16: once the producer has closed c.inSpans the started Ingestor eventually
\* leaves its loop, without an error, having forwarded every span it received
\* (runs ended by a nil dereference in HandleNewSpan are left aside).
C16_IngestorTerminates ==
  (inSpans.closed /\ supPc # "new") ~> \/ ingPc = "done" /\ spansOut = spansIn
                                       \/ ingPc = "panicNil"

\* C17: whenever a slot of openBucket is given a new bucket, the bucket it
\* held before (if any) has already been sent on the outbound stats channel;
\* so every allocated bucket that has left the ring has been emitted.
C17_NoClosedBucketLost ==
  /\ [][\A i \in Slots :
          openBucket'[i] # openBucket[i] =>
            openBucket[i] = NIL \/ openBucket[i] \in EmittedIds]_vars
  /\ [](\A b \in 1..Len(bkt) :
          b \notin {openBucket[0], openBucket[1]} => b \in EmittedIds)

C17_Witness ==
  Len(bkt) >= 3 /\ openBucket[0] = 3 /\ 1 \in EmittedIds /\ schedPc = "stamp"

\* C18: a span is absorbed by a bucket that was the current bucket at some
\* instant between the Ingestor receiving the span and forwarding it; so when
\* the span is forwarded the bucket that absorbed it is the current bucket or
\* an earlier one.  Stated for every interleaving of HandleNewSpan's loads
\* with the steps of flush (the calls whose loads returned the latest stores).
C18_AttributionBounded ==
  [][(ingPc = "send" /\ ingPc' = "recv" /\ ingFresh) =>
       \A b \in 1..Len(bkt) :
         (\E k \in DOMAIN bkt[b].handled : bkt[b].handled[k] = ingSpan) =>
            b <= openBucket[currentBucket]]_vars

\* C19: after Start, in every state (every intermediate step of flush
\* included) currentBucket is 0 or 1 and openBucket[currentBucket] is not nil,
\* HandleNewSpan never has a nil pointer to dereference, and between flushes
\* currentBucket is the number of completed rotations mod 2.
C19_WriteTargetExists ==
  supPc # "new" =>
    /\ currentBucket \in Slots
    /\ openBucket[currentBucket] # NIL
    /\ ingPc = "handle" => ingPtr # NIL
    /\ ingPc # "panicNil"
    /\ ~InFlush => currentBucket = flushes % 2

\* C20: every emitted bucket carries Duration = (clock at the rotation that
\* closed it) - Start; a bucket's Duration is written once, while it is the
\* current bucket, and does not change afterwards.
C20_DurationStampedOnce ==
  /\ [](/\ \A k \in DOMAIN statsOut :
             LET e == statsOut[k] IN
               /\ e.Duration = bkt[e.id].closedAt - e.Start
               /\ e.Duration = bkt[e.id].Duration /\ e.Start = bkt[e.id].Start
               /\ bkt[e.id].stamps = 1
        /\ \A b \in 1..Len(bkt) : bkt[b].stamps <= 1)
  /\ [][\A b \in 1..Len(bkt) :
          /\ bkt[b].stamps >= 1 => bkt'[b].Duration = bkt[b].Duration
          /\ bkt'[b].stamps # bkt[b].stamps =>
               /\ b = openBucket[currentBucket] /\ schedPc = "stamp"
               /\ bkt'[b].Duration = now - bkt[b].Start]_vars

C20_Witness ==
  /\ Len(statsOut) >= 2
  /\ statsOut[1].Start = 0 /\ statsOut[1].Duration = 1
  /\ statsOut[2].Start = 1 /\ statsOut[2].Duration = 0
====
